---- MODULE Spec2Model ----
(***************************************************************************)
(* Model of the four Vulkan tutorials (tutorial00 .. tutorial03).  Each    *)
(* tutorial is a sequential main(); the native API (vkCreateInstance,      *)
(* vkEnumeratePhysicalDevices, ...), malloc and free are the environment:  *)
(* their outcomes are drawn nondeterministically, and every native call,   *)
(* allocation, release and printed line is appended to a log.              *)
(***************************************************************************)
EXTENDS Integers, Sequences, FiniteSets

VARIABLES
    tut,        \* which tutorial's main() runs: 0 .. 3
    pc,         \* position of main()
    vkInst,     \* VkInstance handle held by main (0 = null handle)
    vkPhysDev,  \* VkPhysicalDevice* held by main (0 = NULL, else heap index)
    i_devCount, \* uint32_t i_devCount of main
    vkDev,      \* VkDevice handle held by main (tutorial 03; 0 = null handle)
    res,        \* VkResult res of main
    i,          \* loop index of the printing loops
    exitCode,   \* value returned by main (meaningful when pc = "exited")
    calls,      \* log of native / malloc / free calls, in program order
    out,        \* lines printed to standard output, in program order
    heap        \* every block malloc ever returned, with its release count

vars == <<tut, pc, vkInst, vkPhysDev, i_devCount, vkDev, res, i, exitCode,
          calls, out, heap>>

---------------------------------------------------------------------------
\* Bounds of the environment.

\* Largest number of physical devices the driver reports.
MaxDev == 2
\* Largest number of queue families a physical device reports.
MaxFam == 2

---------------------------------------------------------------------------
\* VkResult codes (vulkan.h) named by the tutorials.

VK_SUCCESS == 0
VK_INCOMPLETE == 5
VK_ERROR_OUT_OF_HOST_MEMORY == -1
VK_ERROR_OUT_OF_DEVICE_MEMORY == -2
VK_ERROR_INITIALIZATION_FAILED == -3
VK_ERROR_LAYER_NOT_PRESENT == -6
VK_ERROR_EXTENSION_NOT_PRESENT == -7
VK_ERROR_INCOMPATIBLE_DRIVER == -9

\* Queue capability bits (vulkan.h) tested by printQueueFamilyInfo.
VK_QUEUE_GRAPHICS_BIT == 1
VK_QUEUE_COMPUTE_BIT == 2
VK_QUEUE_TRANSFER_BIT == 4
VK_QUEUE_SPARSE_BINDING_BIT == 8

\* Outcomes the driver may give to vkCreateInstance.
InstanceResults ==
    { VK_SUCCESS, VK_ERROR_OUT_OF_HOST_MEMORY, VK_ERROR_OUT_OF_DEVICE_MEMORY,
      VK_ERROR_INITIALIZATION_FAILED, VK_ERROR_LAYER_NOT_PRESENT,
      VK_ERROR_EXTENSION_NOT_PRESENT, VK_ERROR_INCOMPATIBLE_DRIVER }

\* Outcomes the driver may give to vkEnumeratePhysicalDevices, apart from
\* VK_INCOMPLETE, which follows from the capacity handed in.
EnumResults ==
    { VK_SUCCESS, VK_ERROR_OUT_OF_HOST_MEMORY, VK_ERROR_OUT_OF_DEVICE_MEMORY,
      VK_ERROR_INITIALIZATION_FAILED }

\* Outcomes the driver may give to vkCreateDevice.
DeviceResults ==
    { VK_SUCCESS, VK_ERROR_OUT_OF_HOST_MEMORY, VK_ERROR_OUT_OF_DEVICE_MEMORY,
      VK_ERROR_INITIALIZATION_FAILED }

\* deviceType codes a device may report.
DeviceTypes == {1, 2}
\* In the specifications of a single tutorial every device is of one type.
OneDeviceType == {CHOOSE t \in DeviceTypes : TRUE}

\* The handle the driver gives to its k-th physical device (k >= 1); any
\* other value is not a physical device.
ValidPhysDev(h) == h \in 1..MaxDev
\* A value that is no handle of any object (indeterminate memory).
Junk == MaxDev + 1

Min(a, b) == IF a < b THEN a ELSE b

---------------------------------------------------------------------------
\* The logs.  A world is what a helper function can change besides its
\* out-parameters: the call log, the printed lines and the heap.

\* One logged call: fn the function, h its handle argument, p its pointer
\* argument or returned pointer (0 = NULL), r its VkResult (0 when void),
\* info further arguments (for malloc: the number of entries and their type).
Call(fn, h, p, r, info) == [fn |-> fn, h |-> h, p |-> p, r |-> r, info |-> info]

\* One printed line: the format string's text and its arguments.
Line(msg, args) == [msg |-> msg, args |-> args]

World == [calls |-> calls, out |-> out, heap |-> heap]

Log(w, c) == [w EXCEPT !.calls = Append(@, c)]
Say(w, l) == [w EXCEPT !.out = Append(@, l)]

\* malloc(n entries): ok is the allocator's outcome.  Returns the world and
\* the pointer; a block records its kind, its capacity in entries, how many
\* entries the driver has written, how often it was passed to free, and
\* whether an entry was read after the block was freed.
Malloc(w, kind, n, ok) ==
    LET p  == IF ok THEN Len(w.heap) + 1 ELSE 0
        h1 == IF ok
              THEN Append(w.heap, [kind |-> kind, cap |-> n, filled |-> 0,
                                   props |-> <<>>, frees |-> 0,
                                   readFreed |-> FALSE])
              ELSE w.heap
    IN  [w |-> Log([w EXCEPT !.heap = h1], Call("malloc", 0, p, 0, <<n, kind>>)),
         p |-> p]

\* the program reads entries of the block at p
ReadEntries(w, p) ==
    [w EXCEPT !.heap[p].readFreed = @ \/ w.heap[p].frees > 0]

\* free(p) of a non-null pointer.
Free(w, p) ==
    Log([w EXCEPT !.heap[p].frees = @ + 1], Call("free", 0, p, 0, <<>>))

---------------------------------------------------------------------------
\* createInstance (tutorial01..03; tutorial00 has the same code inline).
\* r is the driver's outcome; inst0 the caller's handle before the call.
createInstanceLayers == 0
createInstanceExtensions == 0

createInstance(w, inst0, r) ==
    [w    |-> Log(w, Call("vkCreateInstance", 0, 0, r,
                          <<createInstanceLayers, createInstanceExtensions>>)),
     res  |-> r,
     inst |-> IF r = VK_SUCCESS THEN 1 ELSE inst0]

---------------------------------------------------------------------------
\* vkEnumeratePhysicalDevices as the driver behaves.

\* Count query (pPhysicalDevices = NULL): r the driver's status, n what the
\* driver leaves in the count (the number of devices on success; on an error
\* the count's content is unspecified, so any n).
EnumerateCount(w, inst, r, n) ==
    [w     |-> Log(w, Call("vkEnumeratePhysicalDevices", inst, 0, r, <<n>>)),
     res   |-> r,
     count |-> n]

\* Fill query into the block at p, told a capacity of cap entries: r the
\* driver's status, avail the number of devices present at this call.  The
\* driver writes Min(cap, avail) handles, stores that number in the count and
\* answers VK_INCOMPLETE when not all devices fitted; on an error no entry
\* holds a handle.
EnumerateFill(w, inst, p, cap, r, avail) ==
    LET written == Min(cap, avail)
        status  == IF r # VK_SUCCESS THEN r
                   ELSE IF avail > cap THEN VK_INCOMPLETE ELSE VK_SUCCESS
        w1      == [w EXCEPT !.heap[p].filled = IF r = VK_SUCCESS THEN written ELSE 0]
    IN  [w     |-> Log(w1, Call("vkEnumeratePhysicalDevices", inst, p, status,
                                <<written>>)),
         res   |-> status,
         count |-> written]

---------------------------------------------------------------------------
\* createPhysicalDevicesArray (identical in tutorial01..03).

\* The count query's status left unchecked.
CountQueryUnchecked(r) == FALSE
\* if (res != VK_SUCCESS) after the count query
CountQueryFailed(r) == r # VK_SUCCESS
\* The zero-device check left out.
NoDeviceUnchecked(n) == FALSE
\* if (*i_devCount == 0)
NoDevicePresent(n) == n = 0
\* The array allocated one entry too long.
PhysDevArrayEntriesOffByOne(n) == n + 1
\* number of entries of malloc(sizeof(VkPhysicalDevice) * (*i_devCount))
PhysDevArrayEntries(n) == n
\* if (*vkPhysDev == NULL)
AllocationFailed(p) == p = 0
\* if (res != VK_SUCCESS) after the fill query
FillQueryFailed(r) == r # VK_SUCCESS

\* o is the environment's part: o.r1, o.n1 the count query's status and
\* count, o.ok the allocator's outcome, o.r2, o.avail the fill query's status
\* and the devices present then.  ptr0 is the caller's *vkPhysDev before the
\* call.
createPhysicalDevicesArray(w, inst, ptr0, o) ==
    LET q1 == EnumerateCount(w, inst, o.r1, o.n1)
    IN
    IF CountQueryFailed(q1.res)
    THEN [w |-> Say(q1.w, Line("Failed to query number of physical devices present",
                               <<q1.res>>)),
          res |-> q1.res, count |-> q1.count, ptr |-> ptr0]
    ELSE IF NoDevicePresent(q1.count)
    THEN [w |-> Say(q1.w, Line("Couldn't detect any device present with Vulkan support",
                               <<q1.res>>)),
          res |-> q1.res, count |-> q1.count, ptr |-> ptr0]
    ELSE
    LET m == Malloc(q1.w, "VkPhysicalDevice", PhysDevArrayEntries(q1.count), o.ok)
    IN
    IF AllocationFailed(m.p)
    THEN [w |-> Say(m.w, Line("Couldn't allocate memory for the physical device array",
                              <<>>)),
          res |-> VK_ERROR_OUT_OF_HOST_MEMORY, count |-> q1.count, ptr |-> m.p]
    ELSE
    LET q2 == EnumerateFill(m.w, inst, m.p, q1.count, o.r2, o.avail)
    IN
    IF FillQueryFailed(q2.res)
    THEN [w |-> Say(q2.w, Line("Failed to enumerate physical devices present",
                               <<q2.res>>)),
          res |-> q2.res, count |-> q2.count, ptr |-> m.p]
    ELSE [w |-> q2.w, res |-> q2.res, count |-> q2.count, ptr |-> m.p]

\* What the environment may answer to one createPhysicalDevicesArray.
EnumOracles ==
    [r1 : EnumResults, n1 : 0..MaxDev, ok : BOOLEAN,
     r2 : EnumResults, avail : 0..MaxDev]

---------------------------------------------------------------------------
Init ==
    /\ tut \in 0..3
    /\ pc = "createInstance"
    \* tutorial00/01 declare vkInst without an initializer
    /\ vkInst \in (IF tut \in {0, 1} THEN {0, Junk} ELSE {0})
    /\ vkPhysDev = 0
    /\ i_devCount = 0
    /\ vkDev = 0
    /\ res = VK_SUCCESS
    /\ i = 0
    /\ exitCode = 0
    /\ calls = <<>>
    /\ out = <<>>
    /\ heap = <<>>

SetWorld(w) ==
    /\ calls' = w.calls
    /\ out' = w.out
    /\ heap' = w.heap

\* return code; from main
Exit(code) ==
    /\ pc' = "exited"
    /\ exitCode' = code

---------------------------------------------------------------------------
\* tutorial00: main

T0_CreateInstance ==
    /\ tut = 0
    /\ pc = "createInstance"
    /\ \E r \in InstanceResults :
         LET c == createInstance(World, vkInst, r)
         IN  /\ res' = c.res
             /\ vkInst' = c.inst
             /\ IF c.res # VK_SUCCESS
                THEN /\ SetWorld(Say(c.w, Line("Failed to create instance", <<c.res>>)))
                     /\ Exit(-1)
                ELSE /\ SetWorld(Say(c.w, Line("Instance created successfully", <<>>)))
                     /\ pc' = "cleanup"
                     /\ UNCHANGED exitCode
    /\ UNCHANGED <<tut, vkPhysDev, i_devCount, vkDev, i>>

T0_DestroyInstance ==
    /\ tut = 0
    /\ pc = "cleanup"
    /\ SetWorld(Say(Log(World, Call("vkDestroyInstance", vkInst, 0, 0, <<>>)),
                    Line("Instance destroyed", <<>>)))
    /\ Exit(0)
    /\ UNCHANGED <<tut, vkInst, vkPhysDev, i_devCount, vkDev, res, i>>

---------------------------------------------------------------------------
\* tutorial01: the API version macros and printPhysicalDevicesProperties

\* A uint32_t is held as its two 16-bit halves <<high, low>>, its value being
\* high * 2^16 + low.

\* x >> n, for 0 <= n < 32
ShiftRight(x, n) ==
    IF n >= 16
    THEN <<0, x[1] \div (2 ^ (n - 16))>>
    ELSE <<x[1] \div (2 ^ n),
           (x[1] % (2 ^ n)) * (2 ^ (16 - n)) + x[2] \div (2 ^ n)>>
\* x & (2^n - 1), for n <= 16, as a number
LowBits(x, n) == x[2] % (2 ^ n)

VK_API_MAJOR_VERSION(x) == LowBits(ShiftRight(x, 22), 10)
\* The shift without the 10-bit mask: the major number's bits stay in.
VK_API_MINOR_VERSION_Unmasked(x) == LowBits(ShiftRight(x, 12), 16)
VK_API_MINOR_VERSION(x) == LowBits(ShiftRight(x, 12), 10)
VK_API_PATCH_VERSION(x) == LowBits(x, 12)

\* (major << 22) | (minor << 12) | patch, as VK_MAKE_VERSION packs it
PackVersion(major, minor, patch) ==
    <<major * (2 ^ 6) + minor \div (2 ^ 4), (minor % (2 ^ 4)) * (2 ^ 12) + patch>>

\* apiVersion values a device may report: 0.0.0, 1.0.3, and all bits set.
ApiVersions == {PackVersion(0, 0, 0), PackVersion(1, 0, 3),
                PackVersion(1023, 1023, 4095)}

\* vkPhysDev[k] as the program reads it (k counted from 0): the handle the
\* driver wrote, or, where it wrote none, whatever malloc left in the block:
\* zero, a value that is no handle, or a handle an earlier user of the memory
\* stored there.
PhysDevAt(w, p, k) ==
    IF k < w.heap[p].filled THEN {k + 1} ELSE 0..Junk

\* One iteration of the loop of printPhysicalDevicesProperties for device
\* handle h, whose apiVersion and deviceType the driver reports as api, type.
\* The call's record keeps the apiVersion the driver wrote.
printPhysicalDeviceBlock(w, h, api, type) ==
    LET w1 == Log(w, Call("vkGetPhysicalDeviceProperties", h, 0, 0, api))
        w2 == Say(w1, Line("API Version", <<VK_API_MAJOR_VERSION(api),
                                            VK_API_MINOR_VERSION(api),
                                            VK_API_PATCH_VERSION(api)>>))
        w3 == Say(w2, Line("Driver Version", <<1>>))
        w4 == Say(w3, Line("Device Name", <<h>>))
    IN  Say(w4, Line("Device Type", <<type>>))

---------------------------------------------------------------------------
\* tutorial01: main

\* what main does when createPhysicalDevicesArray failed: return -1
T1_EnumFailed(w, r) ==
    /\ SetWorld(Say(w, Line("Failed to create instance", <<r>>)))
    /\ Exit(-1)
    /\ UNCHANGED i

T1_CreateInstance ==
    /\ tut = 1
    /\ pc = "createInstance"
    /\ \E r \in InstanceResults :
         LET c == createInstance(World, vkInst, r)
         IN  /\ res' = c.res
             /\ vkInst' = c.inst
             /\ IF c.res # VK_SUCCESS
                THEN /\ SetWorld(Say(c.w, Line("Failed to create instance", <<c.res>>)))
                     /\ Exit(-1)
                ELSE /\ SetWorld(c.w)
                     /\ pc' = "enumerate"
                     /\ UNCHANGED exitCode
    /\ UNCHANGED <<tut, vkPhysDev, i_devCount, vkDev, i>>

T1_CreatePhysicalDevicesArray ==
    /\ tut = 1
    /\ pc = "enumerate"
    /\ \E o \in EnumOracles :
         LET c == createPhysicalDevicesArray(World, vkInst, vkPhysDev, o)
         IN  /\ res' = c.res
             /\ i_devCount' = c.count
             /\ vkPhysDev' = c.ptr
             /\ IF c.res # VK_SUCCESS
                THEN T1_EnumFailed(c.w, c.res)
                ELSE \* printPhysicalDevicesProperties is entered
                     /\ SetWorld(Say(c.w, Line("physical device(s) found", <<c.count>>)))
                     /\ pc' = "print"
                     /\ i' = 0
                     /\ UNCHANGED exitCode
    /\ UNCHANGED <<tut, vkInst, vkDev>>

\* one iteration of for (i = 0; i < i_devCount; i++)
T1_PrintDevice ==
    /\ tut = 1
    /\ pc = "print"
    /\ i < i_devCount
    /\ \E h \in PhysDevAt(World, vkPhysDev, i), api \in ApiVersions, type \in DeviceTypes :
         SetWorld(printPhysicalDeviceBlock(World, h, api, type))
    /\ i' = i + 1
    /\ UNCHANGED <<tut, pc, vkInst, vkPhysDev, i_devCount, vkDev, res, exitCode>>

\* the loop has ended: free, vkDestroyInstance, return 0
T1_Teardown ==
    /\ tut = 1
    /\ pc = "print"
    /\ ~(i < i_devCount)
    /\ LET w1 == IF vkPhysDev # 0 THEN Free(World, vkPhysDev) ELSE World
       IN  SetWorld(Log(w1, Call("vkDestroyInstance", vkInst, 0, 0, <<>>)))
    /\ Exit(0)
    /\ UNCHANGED <<tut, vkInst, vkPhysDev, i_devCount, vkDev, res, i>>

---------------------------------------------------------------------------
\* getQueueFamilyProperites (identical in tutorial02 and tutorial03)

\* Queue family descriptors a device may report.
FamilyChoices ==
    { [queueCount |-> 1, queueFlags |-> VK_QUEUE_GRAPHICS_BIT + VK_QUEUE_COMPUTE_BIT],
      [queueCount |-> 2, queueFlags |-> VK_QUEUE_TRANSFER_BIT] }

\* What the environment may answer to one getQueueFamilyProperites: the
\* families of the device (the driver reports the same ones to both queries)
\* and the allocator's outcome.
FamilyOracles ==
    UNION { [fams : [1..n -> FamilyChoices], ok : BOOLEAN] : n \in 0..MaxFam }

\* The array allocated one entry too long.
QueueFamilyArrayEntriesOffByOne(n) == n + 1
\* number of entries of malloc(sizeof(VkQueueFamilyProperties)*(*i_Count))
QueueFamilyArrayEntries(n) == n
\* if (*vkQuFamProps == NULL)
QueueFamilyAllocationFailed(p) == p = 0

\* h the physical device; o.fams its families, o.ok the allocator's outcome.
getQueueFamilyProperites(w, h, o) ==
    LET n  == Len(o.fams)
        w1 == Log(w, Call("vkGetPhysicalDeviceQueueFamilyProperties", h, 0, 0, <<n>>))
        m  == Malloc(w1, "VkQueueFamilyProperties", QueueFamilyArrayEntries(n), o.ok)
    IN
    IF QueueFamilyAllocationFailed(m.p)
    THEN [w |-> Say(m.w, Line("Couldn't allocate memory for the physical device array",
                              <<>>)),
          res |-> VK_ERROR_OUT_OF_HOST_MEMORY, count |-> n, ptr |-> m.p]
    ELSE
    LET w2 == [m.w EXCEPT !.heap[m.p].filled = n, !.heap[m.p].props = o.fams]
    IN  [w |-> Log(w2, Call("vkGetPhysicalDeviceQueueFamilyProperties", h, m.p, 0, <<n>>)),
         res |-> VK_SUCCESS, count |-> n, ptr |-> m.p]

---------------------------------------------------------------------------
\* tutorial02: printQueueFamilyInfo

\* flags & bit, as a truth value (bit a power of two)
HasBit(flags, bit) == (flags \div bit) % 2 = 1

\* The four tests chained with else: only the first capability set is printed.
CapabilityLinesElseIf(flags) ==
    IF HasBit(flags, VK_QUEUE_GRAPHICS_BIT) THEN <<Line("Graphics", <<>>)>>
    ELSE IF HasBit(flags, VK_QUEUE_COMPUTE_BIT) THEN <<Line("Compute", <<>>)>>
    ELSE IF HasBit(flags, VK_QUEUE_TRANSFER_BIT) THEN <<Line("Transfer", <<>>)>>
    ELSE IF HasBit(flags, VK_QUEUE_SPARSE_BINDING_BIT)
         THEN <<Line("Sparse Binding", <<>>)>>
    ELSE <<>>
\* the lines of the capability bits set in flags, in the order tested
CapabilityLines(flags) ==
    (IF HasBit(flags, VK_QUEUE_GRAPHICS_BIT) THEN <<Line("Graphics", <<>>)>> ELSE <<>>)
    \o (IF HasBit(flags, VK_QUEUE_COMPUTE_BIT) THEN <<Line("Compute", <<>>)>> ELSE <<>>)
    \o (IF HasBit(flags, VK_QUEUE_TRANSFER_BIT) THEN <<Line("Transfer", <<>>)>> ELSE <<>>)
    \o (IF HasBit(flags, VK_QUEUE_SPARSE_BINDING_BIT)
        THEN <<Line("Sparse Binding", <<>>)>> ELSE <<>>)

\* the block printed for family j (counted from 0) with descriptor f
FamilyBlock(j, f) ==
    << Line("Index", <<j>>),
       Line("Count of Queues", <<f.queueCount>>),
       Line("Minimum Image Transfer Granularity", <<1, 1, 1>>),
       Line("Supported operations on this queue", <<>>) >>
    \o CapabilityLines(f.queueFlags)

\* for (j = 0; j < i_famCount; j++): the blocks of families j .. n-1
RECURSIVE FamilyBlocks(_, _, _)
FamilyBlocks(props, j, n) ==
    IF j < n THEN FamilyBlock(j, props[j + 1]) \o FamilyBlocks(props, j + 1, n)
    ELSE <<>>

\* for (j = 0; j < i_famCount; j++): the family blocks of the array at p,
\* read entry by entry (no entry is read when n = 0)
printFamilies(w, p, n) ==
    LET r == IF n > 0 THEN ReadEntries(w, p) ELSE w
    IN  [r EXCEPT !.out = @ \o FamilyBlocks(r.heap[p].props, 0, n)]

\* The iteration with the array freed before its descriptors are printed.
printQueueFamilyDeviceFreeFirst(w, h, type, o) ==
    LET w1 == Log(w, Call("vkGetPhysicalDeviceProperties", h, 0, 0, <<>>))
        w2 == Say(w1, Line("Device Name", <<h, type>>))
        q  == getQueueFamilyProperites(w2, h, o)
        w3 == Say(q.w, Line("Device Queue Family Count", <<q.count>>))
        w4 == IF q.ptr # 0 THEN Free(w3, q.ptr) ELSE w3
    IN  IF q.res # VK_SUCCESS
        THEN Say(w4, Line("Error: Could no get the list of queue families", <<q.res>>))
        ELSE printFamilies(w4, q.ptr, q.count)

\* One iteration of the device loop for device handle h of type type.
printQueueFamilyDevice(w, h, type, o) ==
    LET w1 == Log(w, Call("vkGetPhysicalDeviceProperties", h, 0, 0, <<>>))
        w2 == Say(w1, Line("Device Name", <<h, type>>))
        q  == getQueueFamilyProperites(w2, h, o)
        w3 == Say(q.w, Line("Device Queue Family Count", <<q.count>>))
        w4 == IF q.res # VK_SUCCESS
              THEN Say(w3, Line("Error: Could no get the list of queue families",
                                <<q.res>>))
              ELSE printFamilies(w3, q.ptr, q.count)
    IN  IF q.ptr # 0 THEN Free(w4, q.ptr) ELSE w4

---------------------------------------------------------------------------
\* tutorial02: main

\* the statements from the cleanup label to the return
Cleanup02(w, ptr, inst) ==
    LET w1 == IF ptr # 0 THEN Free(w, ptr) ELSE w
        w2 == Log(w1, Call("vkDestroyInstance", inst, 0, 0, <<>>))
    IN  Say(w2, Line("Cleanup done", <<>>))

\* the value main returns after the cleanup label
CleanupReturn02 == 0

T2_CreateInstance ==
    /\ tut = 2
    /\ pc = "createInstance"
    /\ \E r \in InstanceResults :
         LET c == createInstance(World, vkInst, r)
         IN  /\ res' = c.res
             /\ vkInst' = c.inst
             /\ IF c.res # VK_SUCCESS
                THEN /\ SetWorld(Say(c.w, Line("Failed to create instance", <<c.res>>)))
                     /\ Exit(-1)
                ELSE /\ SetWorld(c.w)
                     /\ pc' = "enumerate"
                     /\ UNCHANGED exitCode
    /\ UNCHANGED <<tut, vkPhysDev, i_devCount, vkDev, i>>

T2_CreatePhysicalDevicesArray ==
    /\ tut = 2
    /\ pc = "enumerate"
    /\ \E o \in EnumOracles :
         LET c == createPhysicalDevicesArray(World, vkInst, vkPhysDev, o)
         IN  /\ res' = c.res
             /\ i_devCount' = c.count
             /\ vkPhysDev' = c.ptr
             /\ IF c.res # VK_SUCCESS
                THEN /\ SetWorld(Say(c.w, Line("Failed to create physical devices list",
                                               <<c.res>>)))
                     /\ pc' = "cleanup"
                ELSE /\ SetWorld(c.w)
                     /\ pc' = "print"
    /\ i' = 0
    /\ UNCHANGED <<tut, vkInst, vkDev, exitCode>>

\* one iteration of for (i = 0; i < i_Count; i++) of printQueueFamilyInfo
T2_PrintQueueFamilyInfo ==
    /\ tut = 2
    /\ pc = "print"
    /\ i < i_devCount
    /\ \E h \in PhysDevAt(World, vkPhysDev, i), type \in DeviceTypes, o \in FamilyOracles :
         SetWorld(printQueueFamilyDevice(World, h, type, o))
    /\ i' = i + 1
    /\ UNCHANGED <<tut, pc, vkInst, vkPhysDev, i_devCount, vkDev, res, exitCode>>

\* cleanup: reached by goto, or when printQueueFamilyInfo has returned
T2_Cleanup ==
    /\ tut = 2
    /\ \/ pc = "cleanup"
       \/ pc = "print" /\ ~(i < i_devCount)
    /\ SetWorld(Cleanup02(World, vkPhysDev, vkInst))
    /\ Exit(CleanupReturn02)
    /\ UNCHANGED <<tut, vkInst, vkPhysDev, i_devCount, vkDev, res, i>>

---------------------------------------------------------------------------
\* tutorial03: createDevice

\* vkDevInfo.queueCreateInfoCount
createDeviceQueueCreateInfoCount == 1
\* vkDevQuInfo.queueFamilyIndex
createDeviceQueueFamilyIndex == 0
\* vkDevQuInfo.queueCount
createDeviceQueueCount == 1
\* f_quPriority (1.0)
createDeviceQueuePriority == 1
\* vkDevInfo.enabledLayerCount
createDeviceLayers == 0
\* vkDevInfo.enabledExtensionCount
createDeviceExtensions == 0

\* the VkDeviceCreateInfo handed to vkCreateDevice, as logged
DeviceCreateInfo ==
    <<createDeviceQueueCreateInfoCount, createDeviceQueueFamilyIndex,
      createDeviceQueueCount, createDeviceQueuePriority,
      createDeviceLayers, createDeviceExtensions>>

\* The status of getQueueFamilyProperites left unchecked.
QueueFamilyQueryUnchecked(r) == FALSE
\* if (res != VK_SUCCESS) goto cleanup; after getQueueFamilyProperites
QueueFamilyQueryFailed(r) == r # VK_SUCCESS

\* h the physical device, dev0 the caller's *vkDev before the call, o the
\* environment's answer to getQueueFamilyProperites, r the driver's outcome
\* of vkCreateDevice.  On a failure of vkCreateDevice *vkDev is left as it was.
createDevice(w, h, dev0, o, r) ==
    LET q  == getQueueFamilyProperites(w, h, o)
        c  == IF QueueFamilyQueryFailed(q.res)
              THEN [w |-> q.w, res |-> q.res, dev |-> dev0]
              ELSE [w   |-> Log(q.w, Call("vkCreateDevice", h, 0, r, DeviceCreateInfo)),
                    res |-> r,
                    dev |-> IF r = VK_SUCCESS THEN 1 ELSE dev0]
    IN  [w   |-> IF q.ptr # 0 THEN Free(c.w, q.ptr) ELSE c.w,
         res |-> c.res,
         dev |-> c.dev]

---------------------------------------------------------------------------
\* tutorial03: main

\* Cleanup03 with the instance destroyed first.
Cleanup03InstanceFirst(w, dev, ptr, inst) ==
    LET w1 == Log(w, Call("vkDestroyInstance", inst, 0, 0, <<>>))
        w2 == Log(w1, Call("vkDestroyDevice", dev, 0, 0, <<>>))
        w3 == IF ptr # 0 THEN Free(w2, ptr) ELSE w2
    IN  Say(w3, Line("Cleanup done", <<>>))

\* Cleanup03 with the array freed before the device is destroyed.
Cleanup03FreeFirst(w, dev, ptr, inst) ==
    LET w1 == IF ptr # 0 THEN Free(w, ptr) ELSE w
        w2 == Log(w1, Call("vkDestroyDevice", dev, 0, 0, <<>>))
        w3 == Log(w2, Call("vkDestroyInstance", inst, 0, 0, <<>>))
    IN  Say(w3, Line("Cleanup done", <<>>))

\* the statements from the cleanup label to the return
Cleanup03(w, dev, ptr, inst) ==
    LET w1 == Log(w, Call("vkDestroyDevice", dev, 0, 0, <<>>))
        w2 == IF ptr # 0 THEN Free(w1, ptr) ELSE w1
        w3 == Log(w2, Call("vkDestroyInstance", inst, 0, 0, <<>>))
    IN  Say(w3, Line("Cleanup done", <<>>))

\* the value main returns after the cleanup label
CleanupReturn03 == 0

T3_CreateInstance ==
    /\ tut = 3
    /\ pc = "createInstance"
    /\ \E r \in InstanceResults :
         LET c == createInstance(World, vkInst, r)
         IN  /\ res' = c.res
             /\ vkInst' = c.inst
             /\ IF c.res # VK_SUCCESS
                THEN /\ SetWorld(Say(c.w, Line("Failed to create instance", <<c.res>>)))
                     /\ Exit(-1)
                ELSE /\ SetWorld(Say(c.w, Line("Instance created", <<>>)))
                     /\ pc' = "enumerate"
                     /\ UNCHANGED exitCode
    /\ UNCHANGED <<tut, vkPhysDev, i_devCount, vkDev, i>>

T3_CreatePhysicalDevicesArray ==
    /\ tut = 3
    /\ pc = "enumerate"
    /\ \E o \in EnumOracles :
         LET c == createPhysicalDevicesArray(World, vkInst, vkPhysDev, o)
         IN  /\ res' = c.res
             /\ i_devCount' = c.count
             /\ vkPhysDev' = c.ptr
             /\ IF c.res # VK_SUCCESS
                THEN /\ SetWorld(Say(c.w, Line("Failed to create physical devices list",
                                               <<c.res>>)))
                     /\ pc' = "cleanup"
                ELSE /\ SetWorld(Say(c.w, Line("List of queue families, obtained", <<>>)))
                     /\ pc' = "createDevice"
    /\ UNCHANGED <<tut, vkInst, vkDev, i, exitCode>>

\* The values the read of vkPhysDev[0] may give.  Through a null pointer, or
\* from an entry the driver never wrote, the value is indeterminate.
ReadFirstPhysDev(w, ptr) ==
    IF ptr = 0 THEN {0, Junk} ELSE PhysDevAt(w, ptr, 0)

\* res = createDevice(vkPhysDev[0], &vkDev); and the check of res
T3_CreateDevice ==
    /\ tut = 3
    /\ pc = "createDevice"
    /\ \E h \in ReadFirstPhysDev(World, vkPhysDev), o \in FamilyOracles,
          r \in DeviceResults :
         LET c == createDevice(World, h, vkDev, o, r)
         IN  /\ res' = c.res
             /\ vkDev' = c.dev
             /\ IF c.res # VK_SUCCESS
                THEN SetWorld(Say(c.w, Line("Failed to create device", <<c.res>>)))
                ELSE SetWorld(Say(c.w, Line("Logical device created", <<>>)))
    /\ pc' = "cleanup"
    /\ UNCHANGED <<tut, vkInst, vkPhysDev, i_devCount, i, exitCode>>

\* The read of vkPhysDev[0] through a null pointer, or the driver handed a
\* value that is no physical device, may end the process instead.
T3_Fault ==
    /\ tut = 3
    /\ pc = "createDevice"
    /\ \E h \in ReadFirstPhysDev(World, vkPhysDev) : ~ValidPhysDev(h)
    /\ pc' = "crashed"
    /\ UNCHANGED <<tut, vkInst, vkPhysDev, i_devCount, vkDev, res, i, exitCode,
                   calls, out, heap>>

T3_Cleanup ==
    /\ tut = 3
    /\ pc = "cleanup"
    /\ SetWorld(Cleanup03(World, vkDev, vkPhysDev, vkInst))
    /\ Exit(CleanupReturn03)
    /\ UNCHANGED <<tut, vkInst, vkPhysDev, i_devCount, vkDev, res, i>>

Next ==
    \/ T0_CreateInstance
    \/ T0_DestroyInstance
    \/ T1_CreateInstance
    \/ T1_CreatePhysicalDevicesArray
    \/ T1_PrintDevice
    \/ T1_Teardown
    \/ T2_CreateInstance
    \/ T2_CreatePhysicalDevicesArray
    \/ T2_PrintQueueFamilyInfo
    \/ T2_Cleanup
    \/ T3_CreateInstance
    \/ T3_CreatePhysicalDevicesArray
    \/ T3_CreateDevice
    \/ T3_Fault
    \/ T3_Cleanup

Spec == Init /\ [][Next]_vars

---------------------------------------------------------------------------
\* tutorial02 alone, with devices whose queue families carry every
\* combination of the four capability bits.

\* every queueFlags value over the four capability bits
AllQueueFlags ==
    0 .. (VK_QUEUE_GRAPHICS_BIT + VK_QUEUE_COMPUTE_BIT + VK_QUEUE_TRANSFER_BIT
          + VK_QUEUE_SPARSE_BINDING_BIT)

\* What the environment may answer to one getQueueFamilyProperites here: a
\* device with a single family of any capability combination, or a device of
\* FamilyOracles.
WideFamilyOracles ==
    FamilyOracles
    \cup [fams : {<<[queueCount |-> 1, queueFlags |-> f]>> : f \in AllQueueFlags},
          ok : BOOLEAN]

\* one iteration of for (i = 0; i < i_Count; i++) of printQueueFamilyInfo
T2_PrintQueueFamilyInfoWide ==
    /\ tut = 2
    /\ pc = "print"
    /\ i < i_devCount
    /\ \E h \in PhysDevAt(World, vkPhysDev, i), type \in OneDeviceType,
          o \in WideFamilyOracles :
         SetWorld(printQueueFamilyDevice(World, h, type, o))
    /\ i' = i + 1
    /\ UNCHANGED <<tut, pc, vkInst, vkPhysDev, i_devCount, vkDev, res, exitCode>>

---------------------------------------------------------------------------
\* tutorial01 alone, with devices that report apiVersion values at the ends
\* and in the middle of the three fields.

VersionMajors == {0, 1, 682, 1023}
VersionMinors == {0, 341, 1023}
VersionPatches == {0, 3, 4095}

\* (major << 22) | (minor << 12) | patch for the numbers above
WideApiVersions ==
    {PackVersion(major, minor, patch) :
        major \in VersionMajors, minor \in VersionMinors, patch \in VersionPatches}

\* one iteration of for (i = 0; i < i_devCount; i++) of
\* printPhysicalDevicesProperties
T1_PrintDeviceWide ==
    /\ tut = 1
    /\ pc = "print"
    /\ i < i_devCount
    /\ \E h \in PhysDevAt(World, vkPhysDev, i), api \in WideApiVersions,
          type \in OneDeviceType :
         SetWorld(printPhysicalDeviceBlock(World, h, api, type))
    /\ i' = i + 1
    /\ UNCHANGED <<tut, pc, vkInst, vkPhysDev, i_devCount, vkDev, res, exitCode>>

VersionInit == Init /\ tut = 1

VersionNext ==
    \/ T1_CreateInstance
    \/ T1_CreatePhysicalDevicesArray
    \/ T1_PrintDeviceWide
    \/ T1_Teardown

VersionSpec == VersionInit /\ [][VersionNext]_vars

PrintInit == Init /\ tut = 2

PrintNext ==
    \/ T2_CreateInstance
    \/ T2_CreatePhysicalDevicesArray
    \/ T2_PrintQueueFamilyInfoWide
    \/ T2_Cleanup

PrintSpec == PrintInit /\ [][PrintNext]_vars
---------------------------------------------------------------------------
\* Reading the logs.

\* positions of the call log holding a call of fn
Idx(fn) == {k \in DOMAIN calls : calls[k].fn = fn}
Count(fn) == Cardinality(Idx(fn))

MainReturned == pc = "exited"

\* vkCreateInstance was called and succeeded
InstanceCreated == \E k \in Idx("vkCreateInstance") : calls[k].r = VK_SUCCESS
InstanceFailed == \E k \in Idx("vkCreateInstance") : calls[k].r # VK_SUCCESS

\* heap blocks by the type of their entries
PhysArrays == {p \in DOMAIN heap : heap[p].kind = "VkPhysicalDevice"}
FamilyArrays == {p \in DOMAIN heap : heap[p].kind = "VkQueueFamilyProperties"}
PhysFrees == {k \in Idx("free") : calls[k].p \in PhysArrays}
FamilyFrees == {k \in Idx("free") : calls[k].p \in FamilyArrays}

\* malloc calls for an array of the given entry type
Mallocs(kind) == {k \in Idx("malloc") : calls[k].info[2] = kind}

\* the count query / the fill query of vkEnumeratePhysicalDevices
CountQueries == {k \in Idx("vkEnumeratePhysicalDevices") : calls[k].p = 0}
FillQueries == {k \in Idx("vkEnumeratePhysicalDevices") : calls[k].p # 0}

\* createPhysicalDevicesArray returned a code other than VK_SUCCESS
EnumerationFailed ==
    \/ \E k \in Idx("vkEnumeratePhysicalDevices") : calls[k].r # VK_SUCCESS
    \/ \E k \in Mallocs("VkPhysicalDevice") : calls[k].p = 0

\* some native call or allocation of the run failed
SomethingFailed ==
    \/ \E k \in DOMAIN calls : calls[k].r # VK_SUCCESS
    \/ \E k \in Idx("malloc") : calls[k].p = 0

---------------------------------------------------------------------------
\* C1: in every tutorial vkCreateInstance is called at most once; when main
\* has returned, a created instance has been destroyed exactly once, after its
\* creation, and vkDestroyInstance was never called when creation failed.
C1_InstanceDestroyedOnce ==
    /\ Count("vkCreateInstance") <= 1
    /\ Count("vkDestroyInstance") <= 1
    /\ MainReturned =>
         IF InstanceCreated
         THEN /\ Count("vkDestroyInstance") = 1
              /\ \A k \in Idx("vkDestroyInstance") :
                    /\ calls[k].h = 1
                    /\ \E j \in Idx("vkCreateInstance") : j < k
         ELSE Count("vkDestroyInstance") = 0

\* C2: when main has returned, the exit code is 0 or -1; it is -1 whenever
\* instance creation failed or createPhysicalDevicesArray returned a code
\* other than VK_SUCCESS; it is 0 when nothing failed, and not 0 when
\* something failed.
C2_ExitCodes ==
    MainReturned =>
        /\ exitCode \in {0, -1}
        /\ (InstanceFailed \/ EnumerationFailed) => exitCode = -1
        /\ ~SomethingFailed => exitCode = 0
        /\ SomethingFailed => exitCode # 0

\* C3: the physical device array is never freed twice, has been freed exactly
\* once when main has returned, and free is only ever handed a pointer that
\* malloc returned (never a device handle).
C3_PhysArrayFreedOnce ==
    /\ \A p \in PhysArrays : heap[p].frees <= 1
    /\ MainReturned => \A p \in PhysArrays : heap[p].frees = 1
    /\ \A k \in Idx("free") : calls[k].p \in DOMAIN heap

\* C4 as stated: every free of a heap array precedes vkDestroyDevice, which
\* precedes vkDestroyInstance.
C4_FreeThenDeviceThenInstance ==
    /\ \A k1 \in Idx("free"), k2 \in Idx("vkDestroyDevice") : k1 < k2
    /\ \A k2 \in Idx("vkDestroyDevice"), k3 \in Idx("vkDestroyInstance") : k2 < k3
    /\ \A k1 \in Idx("free"), k3 \in Idx("vkDestroyInstance") : k1 < k3

\* C4 as amended: the queue family arrays are freed first; in tutorial 03
\* vkDestroyDevice is then called (once, whether or not a device was created)
\* BEFORE the physical device array is freed; the free of the physical device
\* array precedes vkDestroyInstance, which is the last call of the run.
C4_TeardownOrder ==
    /\ \A k1 \in FamilyFrees, k2 \in Idx("vkDestroyDevice") : k1 < k2
    /\ \A k2 \in Idx("vkDestroyDevice"), k1 \in PhysFrees : k2 < k1
    /\ \A k1 \in PhysFrees, k3 \in Idx("vkDestroyInstance") : k1 < k3
    /\ \A k3 \in Idx("vkDestroyInstance") : k3 = Len(calls)
    /\ (tut = 3 /\ MainReturned /\ InstanceCreated) => Count("vkDestroyDevice") = 1
    /\ tut # 3 => Count("vkDestroyDevice") = 0

\* C4 witness: tutorial 03 has run its cleanup with a device created and the
\* physical device array allocated, so all three releases happened.
C4_Witness ==
    /\ tut = 3
    /\ MainReturned
    /\ vkDev = 1
    /\ PhysFrees # {}
    /\ FamilyFrees # {}
    /\ Count("vkDestroyDevice") = 1
    /\ Count("vkDestroyInstance") = 1

\* C5: every release of the cleanup path is guarded: free is never handed
\* NULL, vkDestroyDevice is only called on a device that vkCreateDevice
\* created, and vkDestroyInstance only on a created instance.
C5_GuardedCleanup ==
    /\ \A k \in Idx("free") : calls[k].p # 0
    /\ \A k \in Idx("vkDestroyDevice") :
          /\ calls[k].h # 0
          /\ \E j \in Idx("vkCreateDevice") : j < k /\ calls[j].r = VK_SUCCESS
    /\ \A k \in Idx("vkDestroyInstance") :
          /\ calls[k].h # 0
          /\ \E j \in Idx("vkCreateInstance") : j < k /\ calls[j].r = VK_SUCCESS
---------------------------------------------------------------------------
\* Reading the logs of the two enumerators.

\* createPhysicalDevicesArray has returned VK_SUCCESS with an array
ArrayReturned == vkPhysDev # 0 /\ CountQueries # {} /\ ~EnumerationFailed

\* the count the (only) count query reported
FirstCount == calls[CHOOSE k \in CountQueries : TRUE].info[1]

\* the count query succeeded and reported no device
ZeroDevicesReported ==
    \E k \in CountQueries : calls[k].r = VK_SUCCESS /\ calls[k].info[1] = 0

\* lines of the output with the given text
LinesOf(msg) == {l \in DOMAIN out : out[l].msg = msg}

\* main took the branch of a failed createPhysicalDevicesArray
MainSawEnumerationFailure ==
    \/ LinesOf("Failed to create physical devices list") # {}
    \/ tut = 1 /\ LinesOf("Failed to create instance") # {} /\ InstanceCreated

\* the count query / the fill query of vkGetPhysicalDeviceQueueFamilyProperties
FamilyCountQueries ==
    {k \in Idx("vkGetPhysicalDeviceQueueFamilyProperties") : calls[k].p = 0}
FamilyFillQueries ==
    {k \in Idx("vkGetPhysicalDeviceQueueFamilyProperties") : calls[k].p # 0}
FailedFamilyMallocs == {k \in Mallocs("VkQueueFamilyProperties") : calls[k].p = 0}

---------------------------------------------------------------------------
\* C6 as stated: when createPhysicalDevicesArray has returned success with an
\* array, the array has as many entries as the count query reported, and
\* i_devCount equals the number of entries of the array.
C6_CountEqualsEntries ==
    ArrayReturned =>
        /\ heap[vkPhysDev].cap = FirstCount
        /\ i_devCount = heap[vkPhysDev].cap

\* C6 as amended: the array has as many entries as the count query reported;
\* i_devCount is the number of handles the fill query wrote, which is at most
\* the number of entries, and equal to it when the fill query stored the
\* count it was given.
C6_ArraySizedToFirstCount ==
    ArrayReturned =>
        /\ heap[vkPhysDev].cap = FirstCount
        /\ i_devCount = heap[vkPhysDev].filled
        /\ i_devCount <= heap[vkPhysDev].cap
        /\ \A k \in FillQueries :
              /\ i_devCount = calls[k].info[1]
              /\ calls[k].info[1] = FirstCount => i_devCount = heap[vkPhysDev].cap

\* C6 witness: success with an array whose fill query lowered the count.
C6_Witness ==
    /\ ArrayReturned
    /\ FirstCount = 2
    /\ i_devCount = 1
    /\ heap[vkPhysDev].cap = 2

\* C7: when the count query succeeds with a count of 0, there is no
\* allocation and no second query, the "no devices" line is printed with the
\* success code, the caller's pointer stays NULL, and main does not take its
\* failure branch (the code returned is VK_SUCCESS).
C7_ZeroDevicesIsSuccess ==
    ZeroDevicesReported =>
        /\ Mallocs("VkPhysicalDevice") = {}
        /\ FillQueries = {}
        /\ Count("vkEnumeratePhysicalDevices") = 1
        /\ \E l \in DOMAIN out :
              out[l] = Line("Couldn't detect any device present with Vulkan support",
                            <<VK_SUCCESS>>)
        /\ vkPhysDev = 0
        /\ i_devCount = 0
        /\ ~MainSawEnumerationFailure
        /\ pc \in {"print", "createDevice"} => res = VK_SUCCESS
        /\ (tut \in {1, 2} /\ MainReturned) => exitCode = 0

\* C7 witness: a run of tutorial 01 that saw zero devices and returned 0.
C7_Witness ==
    /\ ZeroDevicesReported
    /\ tut = 1
    /\ MainReturned
    /\ exitCode = 0

\* C8: each native call of createInstance and createPhysicalDevicesArray is
\* issued at most once; a failed vkCreateInstance, count query or fill query
\* is what main holds in res, with no later call of the function; a failed
\* allocation happens only for a count > 0, is returned as
\* VK_ERROR_OUT_OF_HOST_MEMORY, and no fill query follows.
C8_ErrorPropagation ==
    /\ Count("vkCreateInstance") <= 1
    /\ Cardinality(CountQueries) <= 1
    /\ Cardinality(FillQueries) <= 1
    /\ Cardinality(Mallocs("VkPhysicalDevice")) <= 1
    /\ InstanceFailed =>
          /\ Len(calls) = 1
          /\ res = calls[1].r
    /\ \A k \in CountQueries : calls[k].r # VK_SUCCESS =>
          /\ res = calls[k].r
          /\ Mallocs("VkPhysicalDevice") = {}
          /\ FillQueries = {}
    /\ \A k \in Mallocs("VkPhysicalDevice") : calls[k].p = 0 =>
          /\ calls[k].info[1] > 0
          /\ res = VK_ERROR_OUT_OF_HOST_MEMORY
          /\ FillQueries = {}
    /\ \A k \in FillQueries : calls[k].r # VK_SUCCESS =>
          /\ res = calls[k].r
          /\ MainSawEnumerationFailure

\* C8 witness: the fill query failed after a successful count query and
\* allocation, and main holds its code.
C8_Witness ==
    /\ \E k \in FillQueries : calls[k].r = VK_ERROR_INITIALIZATION_FAILED
    /\ res = VK_ERROR_INITIALIZATION_FAILED
    /\ pc = "cleanup"

\* The two-phase protocol of getQueueFamilyProperites: every count query of
\* queue families is followed at once by an allocation of exactly the
\* reported count; after a null allocation no fill query is issued; otherwise
\* one fill query into that array follows.
FamilyProtocol ==
    /\ \A k \in FamilyCountQueries :
          /\ k + 1 \in Mallocs("VkQueueFamilyProperties")
          /\ calls[k + 1].info[1] = calls[k].info[1]
          /\ IF calls[k + 1].p = 0
             THEN k + 2 \notin FamilyFillQueries
             ELSE /\ k + 2 \in FamilyFillQueries
                  /\ calls[k + 2].p = calls[k + 1].p
                  /\ heap[calls[k + 1].p].cap = calls[k].info[1]
    /\ Cardinality(FamilyFillQueries) + Cardinality(FailedFamilyMallocs)
          = Cardinality(FamilyCountQueries)

\* The code getQueueFamilyProperites returns, as its callers show it:
\* VK_ERROR_OUT_OF_HOST_MEMORY exactly for the null allocations, VK_SUCCESS
\* otherwise.  printQueueFamilyInfo prints one error line per failed call;
\* createDevice hands the failure on and calls vkCreateDevice on success.
FamilyReturnCodes ==
    /\ tut = 2 =>
          /\ Cardinality(LinesOf("Error: Could no get the list of queue families"))
                = Cardinality(FailedFamilyMallocs)
          /\ \A l \in LinesOf("Error: Could no get the list of queue families") :
                out[l].args = <<VK_ERROR_OUT_OF_HOST_MEMORY>>
    /\ (tut = 3 /\ FamilyCountQueries # {}) =>
          IF FailedFamilyMallocs # {}
          THEN res = VK_ERROR_OUT_OF_HOST_MEMORY /\ Count("vkCreateDevice") = 0
          ELSE Count("vkCreateDevice") = 1

\* C9 as stated: the protocol holds, VK_ERROR_OUT_OF_HOST_MEMORY is returned
\* exactly when the allocation yields a null pointer, and that happens only
\* for a count > 0.
C9_OutOfMemoryOnlyForPositiveCount ==
    /\ FamilyProtocol
    /\ FamilyReturnCodes
    /\ \A k \in FailedFamilyMallocs : calls[k].info[1] > 0

\* C9 as amended: the protocol holds and VK_ERROR_OUT_OF_HOST_MEMORY is
\* returned exactly when the allocation yields a null pointer, whatever the
\* count (an allocation of zero entries may yield a null pointer too).
C9_OutOfMemoryIffNullAllocation ==
    /\ FamilyProtocol
    /\ FamilyReturnCodes

\* C9 witness: tutorial 02 printed the error of a device whose zero-entry
\* allocation yielded a null pointer.
C9_Witness ==
    /\ tut = 2
    /\ \E k \in FailedFamilyMallocs : calls[k].info[1] = 0
    /\ LinesOf("Error: Could no get the list of queue families") # {}

\* C10: vkCreateDevice is called at most once, always with one queue-create
\* record asking for one queue of family 0 at priority 1.0 and no layers or
\* extensions; it is called exactly when queue family enumeration succeeded,
\* whatever the family count; main holds the resulting status, has printed it
\* when it is a failure, and is at (or past) its cleanup.
C10_CreateDevice ==
    /\ Count("vkCreateDevice") <= 1
    /\ \A k \in Idx("vkCreateDevice") : calls[k].info = <<1, 0, 1, 1, 0, 0>>
    /\ (tut = 3 /\ FamilyCountQueries # {}) =>
          /\ pc \in {"cleanup", "exited"}
          /\ IF FamilyFillQueries # {}
             THEN /\ Count("vkCreateDevice") = 1
                  /\ \A k \in Idx("vkCreateDevice") : res = calls[k].r
             ELSE /\ Count("vkCreateDevice") = 0
                  /\ res = VK_ERROR_OUT_OF_HOST_MEMORY
          /\ IF res # VK_SUCCESS
             THEN Line("Failed to create device", <<res>>) \in {out[l] : l \in DOMAIN out}
             ELSE LinesOf("Failed to create device") = {}
          /\ MainReturned =>
                Count("vkDestroyDevice") = 1 /\ Count("vkDestroyInstance") = 1

\* C10 witness: the device reported zero queue families, and vkCreateDevice
\* was still called for family 0 and failed, which main printed.
C10_Witness ==
    /\ tut = 3
    /\ \E k \in FamilyCountQueries : calls[k].info[1] = 0
    /\ \E k \in Idx("vkCreateDevice") : calls[k].r = VK_ERROR_INITIALIZATION_FAILED
    /\ MainReturned
---------------------------------------------------------------------------
\* The report of printQueueFamilyInfo, as the driver's answers determine it.

\* the texts printQueueFamilyInfo itself prints
PrinterTexts ==
    { "Device Name", "Device Queue Family Count",
      "Error: Could no get the list of queue families", "Index", "Count of Queues",
      "Minimum Image Transfer Granularity", "Supported operations on this queue",
      "Graphics", "Compute", "Transfer", "Sparse Binding" }

IsPrinterLine(l) == l.msg \in PrinterTexts

\* a device line without the device type, which is no part of the report's
\* structure
WithoutType(l) == IF l.msg = "Device Name" THEN Line(l.msg, <<l.args[1]>>) ELSE l

\* what printQueueFamilyInfo has printed so far
PrinterOutput ==
    LET sel == SelectSeq(out, IsPrinterLine)
    IN  [l \in DOMAIN sel |-> WithoutType(sel[l])]

\* bit (a power of two) is set in flags: flags = hi * 2 * bit + bit + lo
BitIsSet(flags, bit) ==
    \E hi \in 0..flags, lo \in 0..(bit - 1) : flags = hi * 2 * bit + bit + lo

\* the capability lines and their bits
CapabilityTable ==
    << <<1, "Graphics">>, <<2, "Compute">>, <<4, "Transfer">>, <<8, "Sparse Binding">> >>

RECURSIVE ExpectedCapabilities(_, _)
ExpectedCapabilities(flags, t) ==
    IF t > Len(CapabilityTable) THEN <<>>
    ELSE (IF BitIsSet(flags, CapabilityTable[t][1])
          THEN <<Line(CapabilityTable[t][2], <<>>)>> ELSE <<>>)
         \o ExpectedCapabilities(flags, t + 1)

\* the block of family j (counted from 0) with descriptor f
ExpectedFamily(j, f) ==
    << Line("Index", <<j>>), Line("Count of Queues", <<f.queueCount>>),
       Line("Minimum Image Transfer Granularity", <<1, 1, 1>>),
       Line("Supported operations on this queue", <<>>) >>
    \o ExpectedCapabilities(f.queueFlags, 1)

RECURSIVE ExpectedFamilies(_, _)
ExpectedFamilies(props, j) ==
    IF j >= Len(props) THEN <<>>
    ELSE ExpectedFamily(j, props[j + 1]) \o ExpectedFamilies(props, j + 1)

\* the position in the call log of the k-th count query of queue families
KthFamilyCountQuery(k) ==
    CHOOSE c \in FamilyCountQueries :
        Cardinality({x \in FamilyCountQueries : x < c}) = k - 1

\* the block of the k-th device of the array (k >= 1): its handle is k, the
\* driver reported calls[c].info[1] families, and the allocation that follows
\* the count query either failed or holds the descriptors the driver wrote
ExpectedDevice(k) ==
    LET c == KthFamilyCountQuery(k)
        p == calls[c + 1].p
    IN  << Line("Device Name", <<k>>),
           Line("Device Queue Family Count", <<calls[c].info[1]>>) >>
        \o (IF p = 0
            THEN <<Line("Error: Could no get the list of queue families",
                        <<VK_ERROR_OUT_OF_HOST_MEMORY>>)>>
            ELSE ExpectedFamilies(heap[p].props, 0))

RECURSIVE ExpectedReport(_, _)
ExpectedReport(k, d) ==
    IF k > d THEN <<>> ELSE ExpectedDevice(k) \o ExpectedReport(k + 1, d)

\* C11: printQueueFamilyInfo prints, for the devices it has gone through, one
\* device block per device in array order; in a device block one family
\* block per reported family in index order 0, 1, ... when the enumeration
\* succeeded (the error line otherwise); in a family block each of the four
\* capability lines exactly when its own bit is set in queueFlags.  When main
\* has returned after a successful enumeration, all i_devCount devices have
\* their block.
C11_Report ==
    tut = 2 =>
        /\ Cardinality(FamilyCountQueries) = i
        /\ PrinterOutput = ExpectedReport(1, i)
        /\ \A k \in 1..i : calls[KthFamilyCountQuery(k)].h = k
        /\ (MainReturned /\ InstanceCreated /\ ~EnumerationFailed) => i = i_devCount

\* C11 witness: one device with family 0 graphics+compute and family 1
\* transfer-only has been reported: two family blocks, one Transfer line.
C11_Witness ==
    /\ tut = 2
    /\ MainReturned
    /\ i_devCount = 1
    /\ i = 1
    /\ \E p \in FamilyArrays :
          /\ Len(heap[p].props) = 2
          /\ heap[p].props[1].queueFlags = 3
          /\ heap[p].props[2].queueFlags = 4
    /\ Cardinality(LinesOf("Index")) = 2
    /\ Cardinality(LinesOf("Graphics")) = 1
    /\ Cardinality(LinesOf("Compute")) = 1
    /\ Cardinality(LinesOf("Transfer")) = 1
    /\ Cardinality(LinesOf("Sparse Binding")) = 0
---------------------------------------------------------------------------
\* C12: the printed API version against the value the driver reported.

\* the position in the call log of the k-th vkGetPhysicalDeviceProperties
KthPropertiesCall(k) ==
    CHOOSE c \in Idx("vkGetPhysicalDeviceProperties") :
        Cardinality({x \in Idx("vkGetPhysicalDeviceProperties") : x < c}) = k - 1

\* the position in the output of the k-th API version line
KthVersionLine(k) ==
    CHOOSE l \in LinesOf("API Version") :
        Cardinality({x \in LinesOf("API Version") : x < l}) = k - 1

\* the three macros applied to (major << 22) | (minor << 12) | patch give
\* back major, minor, patch
Decodes(major, minor, patch) ==
    LET x == PackVersion(major, minor, patch)
    IN  <<VK_API_MAJOR_VERSION(x), VK_API_MINOR_VERSION(x), VK_API_PATCH_VERSION(x)>>
        = <<major, minor, patch>>

\* each field over its whole range, the other two over the sampled numbers
FieldSweeps ==
    /\ \A major \in 0..1023, minor \in VersionMinors, patch \in VersionPatches :
          Decodes(major, minor, patch)
    /\ \A major \in VersionMajors, minor \in 0..1023, patch \in VersionPatches :
          Decodes(major, minor, patch)
    /\ \A major \in VersionMajors, minor \in VersionMinors, patch \in 0..4095 :
          Decodes(major, minor, patch)

\* C12: in tutorial 01, whenever a device reported the apiVersion
\* (major << 22) | (minor << 12) | patch with major in 0..1023, minor in
\* 0..1023 and patch in 0..4095 (here: the numbers of VersionMajors,
\* VersionMinors, VersionPatches, which include 0, major = 1023 and
\* patch = 4095), the three macros print exactly major, minor, patch; and
\* the three printed numbers always pack back to the reported value.  Each
\* macro is also swept over the whole range of its own field.
C12_VersionRoundTrip ==
    /\ FieldSweeps
    /\ tut = 1 =>
        /\ Cardinality(LinesOf("API Version")) = Count("vkGetPhysicalDeviceProperties")
        /\ \A k \in 1..Count("vkGetPhysicalDeviceProperties") :
              LET api == calls[KthPropertiesCall(k)].info
                  a   == out[KthVersionLine(k)].args
              IN  /\ \A major \in VersionMajors, minor \in VersionMinors,
                        patch \in VersionPatches :
                        api = PackVersion(major, minor, patch)
                            => a = <<major, minor, patch>>
                  /\ PackVersion(a[1], a[2], a[3]) = api
                  /\ a[1] \in 0..1023 /\ a[2] \in 0..1023 /\ a[3] \in 0..4095

\* C12 witness: a device that reported 1023.1023.4095 and one that reported
\* 1.0.3 have both been printed.
C12_Witness ==
    /\ tut = 1
    /\ \E c \in Idx("vkGetPhysicalDeviceProperties") :
          calls[c].info = PackVersion(1023, 1023, 4095)
    /\ \E c \in Idx("vkGetPhysicalDeviceProperties") :
          calls[c].info = PackVersion(1, 0, 3)
    /\ \E l \in LinesOf("API Version") : out[l].args = <<1023, 1023, 4095>>
    /\ \E l \in LinesOf("API Version") : out[l].args = <<1, 0, 3>>
---------------------------------------------------------------------------
\* C13: acquisition before use, no use after release.

\* native calls that take the instance
InstanceCalls == Idx("vkEnumeratePhysicalDevices")

\* native calls that take a physical device handle read from the array
PhysDevCalls ==
    Idx("vkGetPhysicalDeviceProperties")
    \cup Idx("vkGetPhysicalDeviceQueueFamilyProperties")
    \cup Idx("vkCreateDevice")

\* successful vkCreateInstance calls
InstanceCreations == {c \in Idx("vkCreateInstance") : calls[c].r = VK_SUCCESS}

\* successful vkCreateDevice calls
DeviceCreations == {c \in Idx("vkCreateDevice") : calls[c].r = VK_SUCCESS}

\* C13: in every tutorial and for every outcome of the native calls, each
\* call that takes the instance, a physical device handle or the physical
\* device array comes after a successful vkCreateInstance and before
\* vkDestroyInstance, and the instance it is given is the created one; the
\* array is neither filled nor read once it is freed (every call on a handle
\* read from it precedes the free, and while main is still to read it, it is
\* neither freed nor the instance destroyed); vkDestroyDevice precedes
\* vkDestroyInstance, and a device that was created is destroyed before the
\* instance when main returns.
C13_AcquireUseRelease ==
    /\ \A k \in InstanceCalls \cup PhysDevCalls :
          /\ \E c \in InstanceCreations : c < k
          /\ \A d \in Idx("vkDestroyInstance") : k < d
    /\ \A k \in InstanceCalls : calls[k].h = 1
    /\ \A d \in Idx("vkDestroyInstance") : \A c \in Idx("vkCreateInstance") : c < d
    /\ \A f \in PhysFrees : \A k \in PhysDevCalls \cup FillQueries : k < f
    /\ pc \in {"enumerate", "print", "createDevice", "crashed"}
          => PhysFrees = {} /\ Idx("vkDestroyInstance") = {}
    /\ \A d \in Idx("vkDestroyDevice") :
          /\ \A x \in Idx("vkDestroyInstance") : d < x
          /\ \A c \in Idx("vkCreateDevice") : c < d
    /\ (MainReturned /\ DeviceCreations # {})
          => \E d \in Idx("vkDestroyDevice") :
                /\ calls[d].h = 1
                /\ \E x \in Idx("vkDestroyInstance") : d < x

\* C13 witness: tutorial 03 has returned after creating the instance, the
\* array and the device, and has released all three.
C13_Witness ==
    /\ tut = 3
    /\ MainReturned
    /\ InstanceCreations # {}
    /\ FillQueries # {}
    /\ DeviceCreations # {}
    /\ PhysFrees # {}
    /\ Idx("vkDestroyDevice") # {}
    /\ Idx("vkDestroyInstance") # {}
---------------------------------------------------------------------------
\* C14: the lifetime of the queue family arrays.

\* allocations of a queue family array that gave a block
FamilyAllocations == {k \in Mallocs("VkQueueFamilyProperties") : calls[k].p # 0}

\* the frees of the block that allocation k gave
FreesOf(k) == {f \in Idx("free") : calls[f].p = calls[k].p}

\* the number of entries the driver wrote into the queue family arrays among
\* the blocks 1..p
RECURSIVE FamilyEntriesWritten(_)
FamilyEntriesWritten(p) ==
    IF p = 0 THEN 0
    ELSE (IF p \in FamilyArrays THEN heap[p].filled ELSE 0) + FamilyEntriesWritten(p - 1)

\* C14: in printQueueFamilyInfo (tutorial 02) and in createDevice (tutorial
\* 03), at every iteration boundary and at the return every queue family
\* array obtained so far has been freed exactly once; the free of an array
\* follows the fill query on it and precedes the next allocation of such an
\* array and the next count query, so at most one is live; no descriptor is
\* read from a freed array, and none is read when the enumeration returned an
\* error: then no array exists, no fill query is made, and the family
\* blocks printed are as many as the descriptors written.  createDevice
\* reads no descriptor, frees its array after vkCreateDevice when it got
\* one, whatever vkCreateDevice returned, and calls neither vkCreateDevice
\* nor free on an array of descriptors when it got none.
C14_FamilyArrayScope ==
    /\ \A p \in FamilyArrays : heap[p].frees = 1 /\ ~heap[p].readFreed
    /\ Cardinality(FamilyArrays) = Cardinality(FamilyAllocations)
    /\ \A k \in FamilyAllocations :
          /\ Cardinality(FreesOf(k)) = 1
          /\ \A f \in FreesOf(k) :
                /\ k + 1 \in FamilyFillQueries /\ k + 1 < f
                /\ \A x \in Mallocs("VkQueueFamilyProperties") \cup FamilyCountQueries
                             \cup FamilyFillQueries :
                      x <= k + 1 \/ f < x
                /\ \A c \in Idx("vkCreateDevice") : c < f
    /\ \A k \in FailedFamilyMallocs :
          /\ k + 1 \notin FamilyFillQueries
          /\ k + 1 \notin Idx("vkCreateDevice")
          /\ k + 1 \notin FamilyFrees
    /\ Cardinality(FamilyFrees) = Cardinality(FamilyAllocations)
    /\ tut = 2 => Cardinality(LinesOf("Index")) = FamilyEntriesWritten(Len(heap))
    /\ tut = 3 => /\ LinesOf("Index") = {}
                  /\ Cardinality(Idx("vkCreateDevice")) = Cardinality(FamilyAllocations)

\* C14 witness: printQueueFamilyInfo has returned after two devices, the
\* first with two families and the second with one; each array was freed
\* before the next was obtained.
C14_Witness ==
    /\ tut = 2
    /\ MainReturned
    /\ Cardinality(FamilyAllocations) = 2
    /\ Cardinality(FamilyFrees) = 2
    /\ \E p1, p2 \in FamilyArrays :
          /\ p1 < p2
          /\ heap[p1].filled = 2
          /\ heap[p2].filled = 1
    /\ Cardinality(LinesOf("Index")) = 3
---------------------------------------------------------------------------
\* C15: the read of vkPhysDev[0] in main of tutorial 03.

\* main has read vkPhysDev[0]: the read ended the process, or createDevice
\* was entered with the value read (its first statement is the count query
\* of queue families)
FirstElementRead == pc = "crashed" \/ FamilyCountQueries # {}

\* C15: in tutorial 03, main reads vkPhysDev[0] and calls createDevice only
\* when the array is non-null and holds at least one entry; when
\* createPhysicalDevicesArray reported zero devices, main neither reads the
\* array nor calls createDevice.
C15_FirstDeviceGuarded ==
    tut = 3 =>
        /\ FirstElementRead => vkPhysDev # 0 /\ i_devCount >= 1
        /\ ZeroDevicesReported => ~FirstElementRead
====
